---- MODULE Spec2Model ----
(***************************************************************************)
(* Model of the streaming backup handler of pages/api/backup-stream.ts     *)
(* and, further down, of the scheduling handler of pages/api/backup.ts, of *)
(* the history handler of pages/api/backups.ts and of the earlier versions *)
(* of the scheduling and of the streaming handler.                         *)
(*                                                                         *)
(* Every request to the handler is one execution.  An execution is made of *)
(* cooperating tasks of the Node event loop: the body of `handler`, the    *)
(* req 'close' listener and the stderr 'data' listener it registers.       *)
(* Executions share one                                                    *)
(* resource, the history file backup-history.json, which every task reads  *)
(* whole (readRecords) and rewrites whole (writeRecords).  Both are        *)
(* asynchronous: the effect of a read or of a write on the file happens    *)
(* some time after the call, and the effects of different tasks may        *)
(* happen in any order.  The code between two awaits runs to completion,   *)
(* so each action below is one effect on the outside world followed by     *)
(* the synchronous code that the effect resumes, up to the next await.     *)
(*                                                                         *)
(* The environment decides when the child exits and with which code, when  *)
(* and how the upload settles, whether vendor/pg_dump.exe exists and when  *)
(* the requester's connection closes.  The upload reads the PassThrough    *)
(* fed by the child's stdout, so it can succeed only once stdout has ended *)
(* (the child exited or was killed); it can fail at any time.              *)
(*                                                                         *)
(* A record carries the fields the status updates read or write (id,       *)
(* status, error, downloadUrl) and dbName; the execution's number stands   *)
(* for its randomUUID.  A read of the history file that fails (readRecords *)
(* then answers []) is part of SpecOne and SpecSerial; a write that fails  *)
(* and getSignedUrl rejecting are outside the model.                       *)
(***************************************************************************)
EXTENDS Naturals, Sequences, FiniteSets, TLC

\* Number of requests the model lets run concurrently.
NumExecs == 2

Execs == 1..NumExecs

\* Number of stderr chunks a child process writes at most.
MaxStderr == 1

\* Number of requests the scheduling handler answers at most.
MaxRequests == 3

\* Number of times cron tasks fire at most.
MaxTicks == 2

\* Number of records the history file holds at most when it is listed.
MaxRecords == 3

\* Number of stdout chunks a child process writes at most.
MaxChunks == 3

VARIABLES
    dbExists,   \* fs.existsSync(DB_PATH): backup-history.json exists
    file,       \* the records stored in backup-history.json, in file order
    pc,         \* pc[e]: where the body of handler stands
    rd,         \* rd[e]: the branch of readRecords the body of handler is in
    buf,        \* buf[e]: the array the body of handler has passed to writeRecords
    lpc,        \* lpc[e]: where the req 'close' listener stands
    lrd,        \* lrd[e]: the branch of readRecords the listener is in
    lbuf,       \* lbuf[e]: the array the listener passed to writeRecords
    closed,     \* closed[e]: the requester's connection has closed
    proc,       \* proc[e]: the dump child process
    upload,     \* upload[e]: how s3Upload.done() settled
    bucket,     \* the executions whose Key is stored in the object-storage bucket
    resEnded,   \* resEnded[e]: res.end() was called (res.writableEnded)
    stream,     \* stream[e]: the events written to the response, in order
    errorOutput,\* errorOutput[e]: the stderr chunks the 'data' listener received
    localFiles, \* the executions whose backupFilePath exists in backups/
    written,    \* written[e]: how many status updates of e have taken effect
    tasks,      \* the live node-cron tasks (scheduled and not stopped)
    scheduledJobs, \* scheduledJobs[jobKey]: the task kept for the key, 0 if none
    runs,       \* the performBackup calls made so far, in order
    requests,   \* how many requests the scheduling handler has answered
    ticks,      \* how many times a cron task has fired
    response,   \* the status code of the scheduling handler's last response
    history,    \* backup-history.json as the history handler finds it
    listing,    \* the array the history handler answered last
    jobPc,      \* where the body of the earlier streaming handler stands
    closePc,    \* where its backupProcess 'close' listener stands
    errPc,      \* where its backupProcess 'error' listener stands
    jobType,    \* the request's dbType, "" if missing
    jobRecord,  \* the row of prisma.backupRecord the handler created
    jobProc,    \* the dump child process
    jobUpload,  \* how s3.upload(...).promise() settled
    jobStdout,  \* how many chunks the child has written to stdout
    jobFile,    \* the chunks written to the file /tmp/<fileName>
    jobFileExists, \* the file /tmp/<fileName> exists
    jobUploaded,\* the chunks the upload has read
    jobEvents,  \* the events written to the response, in order
    jobEnded,   \* res.end() was called
    now,        \* the clock new Date() reads, in milliseconds
    artifacts   \* the file name, local path and Key of each request, in order

\* The state of the streaming handler and of its executions.
streamVars ==
    <<dbExists, file, pc, rd, buf, lpc, lrd, lbuf, closed, proc, upload,
      bucket, resEnded, stream, errorOutput, localFiles, written>>

\* The state of the scheduling handlers and of node-cron.
schedVars == <<tasks, scheduledJobs, runs, requests, ticks, response>>

\* The state of the history handler.
histVars == <<history, listing>>

\* The state of the earlier streaming handler and of its one execution.
prismaVars ==
    <<jobPc, closePc, errPc, jobType, jobRecord, jobProc, jobUpload, jobStdout,
      jobFile, jobFileExists, jobUploaded, jobEvents, jobEnded>>

\* The clock and the artifact names the streaming handler derives from it.
nameVars == <<now, artifacts>>

vars == <<streamVars, schedVars, histVars, prismaVars, nameVars>>

\* An optional field of BackupRecord that is not set.
Absent == "absent"

\* type BackupStatus
BackupStatus == {"COMPLETED", "FAILED", "PROCESSING", "QUEUED", "CANCELLED"}

TerminalStatus == {"COMPLETED", "FAILED", "CANCELLED"}

\* What a record lookup gives when no record has the id.
NoRec ==
    [id |-> 0, dbName |-> "", status |-> "NONE", createdAt |-> Absent,
     fileName |-> Absent, error |-> Absent, downloadUrl |-> Absent]

\* The request's dbName query parameter.
DbNameOf(e) == "db"

\* The request's dbType query parameter: the client sends every field of
\* its form, and the handler (lines 62-65) does not read this one.
DbTypeOf(e) == IF e = 1 THEN "postgresql" ELSE "mysql"

\* const newRecord = { id: recordId, dbName, status: 'PROCESSING', ... }
\* new Date() of lines 69 and 76, as a number of milliseconds: the
\* requests of the executions followed here arrive at instants of their own.
InstantOf(e) == e

\* Date.prototype.toISOString, for the instants of one second
ToISOString(instant) == "2024-05-01T10:00:00.00" \o ToString(instant) \o "Z"

\* const timestamp = new Date().toISOString().replace(/[:.]/g, '-')
FileTimestamp(instant) == "2024-05-01T10-00-00-00" \o ToString(instant) \o "Z"

\* const backupFileName = `${dbName}_${timestamp}.dump`
BackupFileName(dbName, timestamp) == dbName \o "_" \o timestamp \o ".dump"

NewRecord(e) ==
    [id |-> e, dbName |-> DbNameOf(e), status |-> "PROCESSING",
     createdAt |-> ToISOString(InstantOf(e)),
     fileName |-> BackupFileName(DbNameOf(e), FileTimestamp(InstantOf(e))),
     error |-> Absent, downloadUrl |-> Absent]

\* finalRecords.findIndex(r => r.id === recordId), with 0 standing for -1
FindIndex(records, id) ==
    IF \E i \in 1..Len(records) : records[i].id = id
    THEN CHOOSE i \in 1..Len(records) :
            /\ records[i].id = id
            /\ \A j \in 1..(i - 1) : records[j].id # id
    ELSE 0

\* The record of execution e among records, NoRec if there is none.
RecOf(records, e) ==
    IF FindIndex(records, e) = 0 THEN NoRec ELSE records[FindIndex(records, e)]

\* readRecords, at the call: existsSync decides between creating the file
\* and reading it; either way the file is touched only later.
ReadBranch == IF dbExists THEN "read" ELSE "init"

\* readRecords, at its effect: the "init" branch writes an empty array over
\* the file and returns []; the "read" branch returns the parsed content.
ReadRecords(branch) == IF branch = "init" THEN <<>> ELSE file

\* What readRecords returns: [] from its catch block when creating,
\* reading or parsing the file fails, else the result of its branch.
ReadResult(branch, readFails) ==
    IF readFails THEN <<>> ELSE ReadRecords(branch)

\* finalRecords[recordIndex].status = 'COMPLETED'; .downloadUrl = signedUrl
MarkCompleted(records, i) ==
    [records EXCEPT ![i].status = "COMPLETED", ![i].downloadUrl = "signedUrl"]

\* finalRecords[recordIndex].status = 'FAILED'; .error = `S3 Error: ...`
MarkFailed(records, i) ==
    [records EXCEPT ![i].status = "FAILED", ![i].error = "S3 Error"]

\* A condition of the listener that tests for the record only.
RecordFound(records, i) == i > 0

\* if (recordIndex > -1 && finalRecords[recordIndex].status === 'PROCESSING')
StillProcessing(records, i) == i > 0 /\ records[i].status = "PROCESSING"

\* An update to CANCELLED that loses the record's file name.
MarkCancelledWithoutFileName(records, i) ==
    [records EXCEPT ![i].status = "CANCELLED",
                    ![i].error = "Process cancelled by user.",
                    ![i].fileName = Absent]

\* finalRecords[recordIndex].status = 'CANCELLED'; .error = 'Process cancelled by user.'
MarkCancelled(records, i) ==
    [records EXCEPT ![i].status = "CANCELLED",
                    ![i].error = "Process cancelled by user."]

\* backupProcess.kill(): ends the child if it is still running.
Kill(p) == IF p = "running" THEN "killed" ELSE p

\* The child's stdout has ended, and with it the PassThrough the upload reads.
StdoutEnded(p) == p \in {"exit0", "exit1", "killed"}

\* A sendStreamMessage that puts the event in front of the events sent.
SendStreamMessageInFront(ended, sent, tags) ==
    IF ended THEN sent ELSE tags \o sent

\* sendStreamMessage(res, data) for each of tags in turn: res.write appends
\* the event unless the response has ended, when the write fails.
SendStreamMessage(ended, sent, tags) == IF ended THEN sent ELSE sent \o tags

\* { message: data.toString().trim() } for the n-th chunk of stderr
StderrMessage(n) == "stderr " \o ToString(n)

\* finally { if (!res.writableEnded) { sendStreamMessage(closed); res.end() } }
\* applied to the events sent so far.
Finally(ended, sent) == SendStreamMessage(ended, sent, <<"closed">>)

(***************************************************************************)
(* The scheduling handlers.  pages/api/backup.ts answers a POST by         *)
(* scheduling performBackup with node-cron.  An earlier version of the     *)
(* same route is kept in the repository (src/unnamed/part_003); it is      *)
(* modelled next to it, each under a specification of its own (SpecSched,  *)
(* SpecDraft).  A cron task fires when its expression matches the clock;   *)
(* each firing calls the performBackup closure of the request that         *)
(* scheduled it.  A performBackup call of pages/api/backup.ts is followed   *)
(* to the last update of its record; one of the earlier version up to the  *)
(* point where it has started the dump command or has given up.            *)
(***************************************************************************)

\* req.method
Methods == {"POST", "GET"}

\* req.body.dbType: supported by both versions, by the earlier one, by none
DbTypes == {"postgresql", "mysql", "oracle"}

\* req.body.dbName
DbNames == {"shop", "crm"}

\* req.body.cronExpression: missing, blank, valid, not a cron expression
CronExpressions == {"", " ", "0 2 * * *", "soon"}

\* req.body.dbPassword: one that encodeURIComponent leaves as it is, one
\* that it escapes
Passwords == {"s3cret", "p@ss"}

\* The request bodies.
Bodies ==
    [dbType : DbTypes, dbHost : {"db.local"}, dbName : DbNames,
     dbPassword : Passwords, cronExpression : CronExpressions]

\* String.prototype.trim, on the strings of the request bodies
Trim(str) == IF str = " " THEN "" ELSE str

\* trimmedBody[key] = body[key].trim() for every string of the body
TrimmedBody(body) ==
    [dbType |-> Trim(body.dbType), dbHost |-> Trim(body.dbHost),
     dbName |-> Trim(body.dbName), dbPassword |-> Trim(body.dbPassword),
     cronExpression |-> Trim(body.cronExpression)]

\* cron.validate, on the strings of the request bodies
CronValidate(expression) == expression = "0 2 * * *"

\* const jobKey = `${dbType}-${dbHost}-${dbName}`
JobKey(body) == body.dbType \o "-" \o body.dbHost \o "-" \o body.dbName

JobKeys == {JobKey(body) : body \in Bodies}

\* cron.schedule(cronExpression, performBackup): the task numbered n, made
\* by a handler for a request body
ScheduledTask(n, handler, body) ==
    [n |-> n, handler |-> handler, key |-> JobKey(body), body |-> body]

\* encodeURIComponent, on the passwords of the request bodies
EncodeURIComponent(str) == IF str = "p@ss" THEN "p%40ss" ELSE str

\* A template string, as the sequence of its literal and substituted parts.
\* const connectionString = `postgresql://${dbUser}:${encodeURIComponent(
\* dbPassword || '')}@${dbHost}:${dbPort}/${dbName}...`
ConnectionString(body) ==
    <<"postgresql://", "backup_user", ":", EncodeURIComponent(body.dbPassword),
      "@", body.dbHost, ":", "5432", "/", body.dbName>>

\* dumpCommand = `pg_dump "${connectionString}" -F c --no-password > /tmp/${fileName}`
DumpCommand(body) ==
    <<"pg_dump \"">> \o ConnectionString(body)
        \o <<"\" -F c --no-password > /tmp/", "backup-pg-", body.dbName, ".dump">>

\* The dump command of the earlier version, per database type.
DraftDumpCommand(body) ==
    CASE body.dbType = "postgresql" ->
            <<"pg_dump -h ", body.dbHost, " -p ", "5432", " -U ", "backup_user",
              " -d ", body.dbName, " -F c -f /tmp/", "backup-pg-", body.dbName,
              ".dump">>
      [] body.dbType = "mysql" ->
            <<"mysqldump --no-tablespaces -h ", body.dbHost, " -P ", "3306",
              " -u ", "backup_user", " --databases ", body.dbName, " > /tmp/",
              "backup-mysql-", body.dbName, ".sql">>
      [] body.dbType = "mongodb" ->
            <<"mongodump --uri=\"", "mongodb://", "backup_user", ":",
              EncodeURIComponent(body.dbPassword), "@", body.dbHost, ":",
              "27017", "/", body.dbName, "?authSource=admin\"",
              " --archive=/tmp/", "backup-mongo-", body.dbName, ".gz", " --gzip">>
      [] OTHER -> <<>>

\* The database types whose case of the switch builds a dump command.
SupportedTypes == {"postgresql"}

DraftSupportedTypes == {"postgresql", "mysql", "mongodb"}

\* The local variable fileName of performBackup: '' until the case of the
\* switch assigns it from the type, dbName and the timestamp.
DumpFileName(body) ==
    CASE body.dbType = "postgresql" ->
            "backup-pg-" \o body.dbName \o "-timestamp.dump"
      [] body.dbType = "mysql" ->
            "backup-mysql-" \o body.dbName \o "-timestamp.sql"
      [] body.dbType = "mongodb" ->
            "backup-mongo-" \o body.dbName \o "-timestamp.gz"
      [] OTHER -> ""

\* performBackup of pages/api/backup.ts, lines 34-55: the record is created
\* 'pending'; for postgresql the dump command is started, for any other
\* type the record is updated to 'failed' and the call returns.
PerformBackup(body, trigger) ==
    IF body.dbType \in SupportedTypes
    THEN [key |-> JobKey(body), dbType |-> body.dbType, trigger |-> trigger,
          state |-> "dumping", status |-> "pending", error |-> Absent,
          downloadUrl |-> Absent, completedAt |-> Absent,
          fileName |-> Absent, localFileName |-> DumpFileName(body),
          dumpCommand |-> DumpCommand(body),
          env |-> [PGPASSWORD |-> body.dbPassword]]
    ELSE [key |-> JobKey(body), dbType |-> body.dbType, trigger |-> trigger,
          state |-> "returned", status |-> "failed",
          error |-> "Unsupported DB type",
          downloadUrl |-> Absent, completedAt |-> Absent,
          fileName |-> Absent, localFileName |-> "",
          dumpCommand |-> <<>>,
          env |-> [PGPASSWORD |-> body.dbPassword]]

\* performBackup of the earlier version, lines 32-66: for postgresql, mysql
\* and mongodb the dump command is started, for any other type the call
\* returns; this version keeps no job record.
DraftPerformBackup(body, trigger) ==
    [key |-> JobKey(body), dbType |-> body.dbType, trigger |-> trigger,
     state |-> IF body.dbType \in DraftSupportedTypes
               THEN "dumping" ELSE "returned",
     status |-> "NONE", error |-> Absent,
     downloadUrl |-> Absent, completedAt |-> Absent,
     fileName |-> Absent, localFileName |-> DumpFileName(body),
     dumpCommand |-> DraftDumpCommand(body),
     env |-> [PGPASSWORD |-> body.dbPassword, MYSQL_PWD |-> body.dbPassword]]

\* What prisma.backupRecord holds before the handler has created its row.
NoRow ==
    [status |-> "NONE", error |-> Absent, downloadUrl |-> Absent,
     completedAt |-> Absent]

\* prisma.backupRecord.create({ data: { dbName, status: 'pending' } })
PendingRow ==
    [status |-> "pending", error |-> Absent, downloadUrl |-> Absent,
     completedAt |-> Absent]

\* The database types whose case of the earlier streaming handler's switch
\* builds a command.
StreamSupportedTypes == {"postgresql"}

Init ==
    /\ dbExists = FALSE
    /\ file = <<>>
    /\ pc = [e \in Execs |-> "idle"]
    /\ rd = [e \in Execs |-> "none"]
    /\ buf = [e \in Execs |-> <<>>]
    /\ lpc = [e \in Execs |-> "unregistered"]
    /\ lrd = [e \in Execs |-> "none"]
    /\ lbuf = [e \in Execs |-> <<>>]
    /\ closed = [e \in Execs |-> FALSE]
    /\ proc = [e \in Execs |-> "none"]
    /\ upload = [e \in Execs |-> "none"]
    /\ bucket = {}
    /\ resEnded = [e \in Execs |-> FALSE]
    /\ stream = [e \in Execs |-> <<>>]
    /\ errorOutput = [e \in Execs |-> 0]
    /\ localFiles = {}
    /\ written = [e \in Execs |-> 0]
    /\ tasks = {}
    /\ scheduledJobs = [k \in JobKeys |-> 0]
    /\ runs = <<>>
    /\ requests = 0
    /\ ticks = 0
    /\ response = 0
    /\ history = <<>>
    /\ listing = <<>>
    /\ jobPc = "idle"
    /\ closePc = "unregistered"
    /\ errPc = "unregistered"
    /\ jobType = ""
    /\ jobRecord = NoRow
    /\ jobProc = "none"
    /\ jobUpload = "none"
    /\ jobStdout = 0
    /\ jobFile = <<>>
    /\ jobFileExists = FALSE
    /\ jobUploaded = <<>>
    /\ jobEvents = <<>>
    /\ jobEnded = FALSE
    /\ now = 0
    /\ artifacts = <<>>

\* handler, lines 57-77: a request arrives; the record is built and
\* readRecords is called.
Start(e) ==
    /\ pc[e] = "idle"
    /\ pc' = [pc EXCEPT ![e] = "read77"]
    /\ rd' = [rd EXCEPT ![e] = ReadBranch]
    /\ UNCHANGED <<dbExists, file, buf, lpc, lrd, lbuf, closed, proc, upload,
                   bucket, resEnded, stream>>
    /\ UNCHANGED <<errorOutput, localFiles, written>>
    /\ UNCHANGED <<schedVars, histVars, prismaVars, nameVars>>

\* handler, lines 77-79: readRecords takes effect; the new record is pushed
\* and writeRecords is called.
CreateRead(e, readFails) ==
    /\ pc[e] = "read77"
    /\ LET records == ReadResult(rd[e], readFails) IN
        /\ file' = (IF readFails THEN file ELSE records)
        /\ buf' = [buf EXCEPT ![e] = Append(records, NewRecord(e))]
    /\ dbExists' = (readFails => dbExists)
    /\ pc' = [pc EXCEPT ![e] = "write79"]
    /\ rd' = [rd EXCEPT ![e] = "none"]
    /\ UNCHANGED <<lpc, lrd, lbuf, closed, proc, upload, bucket, resEnded, stream>>
    /\ UNCHANGED <<errorOutput, localFiles, written>>
    /\ UNCHANGED <<schedVars, histVars, prismaVars, nameVars>>

\* handler, lines 79-132: writeRecords takes effect; without the dump binary
\* the handler returns, else it spawns the child, registers the 'close'
\* listener, starts the upload and awaits it.
CreateWrite(e, pgDumpExists) ==
    /\ pc[e] = "write79"
    /\ file' = buf[e]
    /\ dbExists' = TRUE
    /\ IF pgDumpExists
       THEN /\ pc' = [pc EXCEPT ![e] = "await132"]
            /\ proc' = [proc EXCEPT ![e] = "running"]
            /\ lpc' = [lpc EXCEPT ![e] = "registered"]
            /\ upload' = [upload EXCEPT ![e] = "pending"]
       ELSE /\ pc' = [pc EXCEPT ![e] = "returned"]
            /\ UNCHANGED <<proc, lpc, upload>>
    /\ buf' = [buf EXCEPT ![e] = <<>>]
    /\ UNCHANGED <<rd, lrd, lbuf, closed, bucket, resEnded, stream>>
    /\ localFiles' = IF pgDumpExists THEN localFiles \cup {e} ELSE localFiles
    /\ UNCHANGED <<errorOutput, written>>
    /\ UNCHANGED <<schedVars, histVars, prismaVars, nameVars>>

\* The child process exits on its own, with exit code 0 or not.
ProcessExit(e, code) ==
    /\ proc[e] = "running"
    /\ proc' = [proc EXCEPT ![e] = IF code = 0 THEN "exit0" ELSE "exit1"]
    /\ UNCHANGED <<dbExists, file, pc, rd, buf, lpc, lrd, lbuf, closed, upload,
                   bucket, resEnded, stream>>
    /\ UNCHANGED <<errorOutput, localFiles, written>>
    /\ UNCHANGED <<schedVars, histVars, prismaVars, nameVars>>

\* handler, lines 132-139: the upload's body has ended and the object store
\* took it; s3Upload.done() resolves, the URL is signed, readRecords is called.
UploadDone(e) ==
    /\ pc[e] = "await132"
    /\ StdoutEnded(proc[e])
    /\ upload' = [upload EXCEPT ![e] = "ok"]
    /\ bucket' = bucket \cup {e}
    /\ stream' = [stream EXCEPT ![e] = SendStreamMessage(resEnded[e], @, <<"info">>)]
    /\ pc' = [pc EXCEPT ![e] = "read139"]
    /\ rd' = [rd EXCEPT ![e] = ReadBranch]
    /\ UNCHANGED <<dbExists, file, buf, lpc, lrd, lbuf, closed, proc, resEnded>>
    /\ UNCHANGED <<errorOutput, localFiles, written>>
    /\ UNCHANGED <<schedVars, histVars, prismaVars, nameVars>>

\* handler, lines 132 and 148-150: s3Upload.done() rejects; the failed event
\* is sent and readRecords is called.
UploadFailed(e) ==
    /\ pc[e] = "await132"
    /\ upload' = [upload EXCEPT ![e] = "err"]
    /\ stream' = [stream EXCEPT ![e] = SendStreamMessage(resEnded[e], @, <<"failed">>)]
    /\ pc' = [pc EXCEPT ![e] = "read150"]
    /\ rd' = [rd EXCEPT ![e] = ReadBranch]
    /\ UNCHANGED <<dbExists, file, buf, lpc, lrd, lbuf, closed, proc, bucket,
                   resEnded>>
    /\ UNCHANGED <<errorOutput, localFiles, written>>
    /\ UNCHANGED <<schedVars, histVars, prismaVars, nameVars>>

\* handler, lines 139-146 and 157-162: readRecords takes effect; with the
\* record found it is marked and writeRecords is called, else the completed
\* event is sent and the finally block runs.
CompleteRead(e, readFails) ==
    /\ pc[e] = "read139"
    /\ LET records == ReadResult(rd[e], readFails)
           i == FindIndex(records, e) IN
        /\ file' = (IF readFails THEN file ELSE records)
        /\ IF i > 0
           THEN /\ buf' = [buf EXCEPT ![e] = MarkCompleted(records, i)]
                /\ pc' = [pc EXCEPT ![e] = "write144"]
                /\ UNCHANGED <<stream, resEnded>>
           ELSE /\ stream' = [stream EXCEPT ![e] =
                        Finally(resEnded[e],
                                SendStreamMessage(resEnded[e], @, <<"completed">>))]
                /\ resEnded' = [resEnded EXCEPT ![e] = TRUE]
                /\ pc' = [pc EXCEPT ![e] = "done"]
                /\ UNCHANGED buf
    /\ dbExists' = (readFails => dbExists)
    /\ rd' = [rd EXCEPT ![e] = "none"]
    /\ UNCHANGED <<lpc, lrd, lbuf, closed, proc, upload, bucket>>
    /\ UNCHANGED <<errorOutput, localFiles, written>>
    /\ UNCHANGED <<schedVars, histVars, prismaVars, nameVars>>

\* handler, lines 144-146 and 157-162: writeRecords takes effect; the
\* completed event is sent and the finally block runs.
CompleteWrite(e) ==
    /\ pc[e] = "write144"
    /\ file' = buf[e]
    /\ dbExists' = TRUE
    /\ stream' = [stream EXCEPT ![e] =
            Finally(resEnded[e], SendStreamMessage(resEnded[e], @, <<"completed">>))]
    /\ resEnded' = [resEnded EXCEPT ![e] = TRUE]
    /\ pc' = [pc EXCEPT ![e] = "done"]
    /\ buf' = [buf EXCEPT ![e] = <<>>]
    /\ UNCHANGED <<rd, lpc, lrd, lbuf, closed, proc, upload, bucket>>
    /\ written' = [written EXCEPT ![e] = @ + 1]
    /\ UNCHANGED <<errorOutput, localFiles>>
    /\ UNCHANGED <<schedVars, histVars, prismaVars, nameVars>>

\* handler, lines 150-162: readRecords takes effect in the catch block; with
\* the record found it is marked and writeRecords is called, else the
\* finally block runs.
FailRead(e, readFails) ==
    /\ pc[e] = "read150"
    /\ LET records == ReadResult(rd[e], readFails)
           i == FindIndex(records, e) IN
        /\ file' = (IF readFails THEN file ELSE records)
        /\ IF i > 0
           THEN /\ buf' = [buf EXCEPT ![e] = MarkFailed(records, i)]
                /\ pc' = [pc EXCEPT ![e] = "write155"]
                /\ UNCHANGED <<stream, resEnded>>
           ELSE /\ stream' = [stream EXCEPT ![e] = Finally(resEnded[e], @)]
                /\ resEnded' = [resEnded EXCEPT ![e] = TRUE]
                /\ pc' = [pc EXCEPT ![e] = "done"]
                /\ UNCHANGED buf
    /\ dbExists' = (readFails => dbExists)
    /\ rd' = [rd EXCEPT ![e] = "none"]
    /\ UNCHANGED <<lpc, lrd, lbuf, closed, proc, upload, bucket>>
    /\ UNCHANGED <<errorOutput, localFiles, written>>
    /\ UNCHANGED <<schedVars, histVars, prismaVars, nameVars>>

\* handler, lines 155-162: writeRecords takes effect in the catch block and
\* the finally block runs.
FailWrite(e) ==
    /\ pc[e] = "write155"
    /\ file' = buf[e]
    /\ dbExists' = TRUE
    /\ stream' = [stream EXCEPT ![e] = Finally(resEnded[e], @)]
    /\ resEnded' = [resEnded EXCEPT ![e] = TRUE]
    /\ pc' = [pc EXCEPT ![e] = "done"]
    /\ buf' = [buf EXCEPT ![e] = <<>>]
    /\ UNCHANGED <<rd, lpc, lrd, lbuf, closed, proc, upload, bucket>>
    /\ written' = [written EXCEPT ![e] = @ + 1]
    /\ UNCHANGED <<errorOutput, localFiles>>
    /\ UNCHANGED <<schedVars, histVars, prismaVars, nameVars>>

\* A stderr 'data' listener that takes output on stderr for a failure and
\* marks the record FAILED.
StderrChunkMarksFailed(e, max) ==
    /\ proc[e] = "running"
    /\ errorOutput[e] < max
    /\ errorOutput' = [errorOutput EXCEPT ![e] = @ + 1]
    /\ stream' = [stream EXCEPT ![e] =
            SendStreamMessage(resEnded[e], @, <<StderrMessage(errorOutput[e] + 1)>>)]
    /\ file' = IF FindIndex(file, e) > 0
               THEN MarkFailed(file, FindIndex(file, e)) ELSE file
    /\ UNCHANGED <<dbExists, pc, rd, buf, lpc, lrd, lbuf, closed, proc,
                   upload, bucket, resEnded, localFiles, written>>
    /\ UNCHANGED <<schedVars, histVars, prismaVars, nameVars>>

\* stderr 'data' listener, lines 125-128: the running child writes its
\* next chunk to stderr, of at most max; it is added to errorOutput and
\* sent as a message.
StderrChunk(e, max) ==
    /\ proc[e] = "running"
    /\ errorOutput[e] < max
    /\ errorOutput' = [errorOutput EXCEPT ![e] = @ + 1]
    /\ stream' = [stream EXCEPT ![e] =
            SendStreamMessage(resEnded[e], @, <<StderrMessage(errorOutput[e] + 1)>>)]
    /\ UNCHANGED <<dbExists, file, pc, rd, buf, lpc, lrd, lbuf, closed, proc,
                   upload, bucket, resEnded, localFiles, written>>
    /\ UNCHANGED <<schedVars, histVars, prismaVars, nameVars>>

StderrData(e) == StderrChunk(e, MaxStderr)

\* The requester's connection closes and req emits 'close'.  A registered
\* listener (lines 94-97) kills the child and calls readRecords; with no
\* listener registered yet the event goes unheard.
ClientClose(e) ==
    /\ pc[e] # "idle"
    /\ ~closed[e]
    /\ closed' = [closed EXCEPT ![e] = TRUE]
    /\ IF lpc[e] = "registered"
       THEN /\ proc' = [proc EXCEPT ![e] = Kill(@)]
            /\ lpc' = [lpc EXCEPT ![e] = "read97"]
            /\ lrd' = [lrd EXCEPT ![e] = ReadBranch]
       ELSE UNCHANGED <<proc, lpc, lrd>>
    /\ UNCHANGED <<dbExists, file, pc, rd, buf, lbuf, upload, bucket, resEnded,
                   stream>>
    /\ UNCHANGED <<errorOutput, localFiles, written>>
    /\ UNCHANGED <<schedVars, histVars, prismaVars, nameVars>>

\* 'close' listener, lines 97-104: readRecords takes effect; a record found
\* in PROCESSING is marked and writeRecords is called, else res.end().
CancelRead(e, readFails) ==
    /\ lpc[e] = "read97"
    /\ LET records == ReadResult(lrd[e], readFails)
           i == FindIndex(records, e) IN
        /\ file' = (IF readFails THEN file ELSE records)
        /\ IF StillProcessing(records, i)
           THEN /\ lbuf' = [lbuf EXCEPT ![e] = MarkCancelled(records, i)]
                /\ lpc' = [lpc EXCEPT ![e] = "write102"]
                /\ UNCHANGED resEnded
           ELSE /\ resEnded' = [resEnded EXCEPT ![e] = TRUE]
                /\ lpc' = [lpc EXCEPT ![e] = "done"]
                /\ UNCHANGED lbuf
    /\ dbExists' = (readFails => dbExists)
    /\ lrd' = [lrd EXCEPT ![e] = "none"]
    /\ UNCHANGED <<pc, rd, buf, closed, proc, upload, bucket, stream>>
    /\ UNCHANGED <<errorOutput, localFiles, written>>
    /\ UNCHANGED <<schedVars, histVars, prismaVars, nameVars>>

\* 'close' listener, lines 102-104: writeRecords takes effect; res.end().
CancelWrite(e) ==
    /\ lpc[e] = "write102"
    /\ file' = lbuf[e]
    /\ dbExists' = TRUE
    /\ resEnded' = [resEnded EXCEPT ![e] = TRUE]
    /\ lpc' = [lpc EXCEPT ![e] = "done"]
    /\ lbuf' = [lbuf EXCEPT ![e] = <<>>]
    /\ UNCHANGED <<pc, rd, buf, lrd, closed, proc, upload, bucket, stream>>
    /\ written' = [written EXCEPT ![e] = @ + 1]
    /\ UNCHANGED <<errorOutput, localFiles>>
    /\ UNCHANGED <<schedVars, histVars, prismaVars, nameVars>>

Next ==
    \E e \in Execs :
        \/ Start(e)
        \/ CreateRead(e, FALSE)
        \/ \E pgDumpExists \in BOOLEAN : CreateWrite(e, pgDumpExists)
        \/ \E code \in {0, 1} : ProcessExit(e, code)
        \/ UploadDone(e)
        \/ UploadFailed(e)
        \/ CompleteRead(e, FALSE)
        \/ CompleteWrite(e)
        \/ FailRead(e, FALSE)
        \/ FailWrite(e)
        \/ StderrData(e)
        \/ ClientClose(e)
        \/ CancelRead(e, FALSE)
        \/ CancelWrite(e)

Spec == Init /\ [][Next]_vars

\* Number of stderr chunks a child process writes at most in the runs of
\* SpecOne and SpecSerial.
MaxSerialStderr == 2

\* The steps of execution e with readRecords failing or not at every call.
StepWithFaults(e) ==
    \/ \E readFails \in BOOLEAN : CreateRead(e, readFails)
    \/ \E pgDumpExists \in BOOLEAN : CreateWrite(e, pgDumpExists)
    \/ \E code \in {0, 1} : ProcessExit(e, code)
    \/ UploadDone(e)
    \/ UploadFailed(e)
    \/ \E readFails \in BOOLEAN : CompleteRead(e, readFails)
    \/ CompleteWrite(e)
    \/ \E readFails \in BOOLEAN : FailRead(e, readFails)
    \/ FailWrite(e)
    \/ StderrChunk(e, MaxSerialStderr)
    \/ ClientClose(e)
    \/ \E readFails \in BOOLEAN : CancelRead(e, readFails)
    \/ CancelWrite(e)

\* Execution e has nothing left to do: the body of handler has returned,
\* the requester is gone and the listener, if registered, has run.
Quiescent(e) ==
    /\ pc[e] \in {"done", "returned"}
    /\ closed[e]
    /\ lpc[e] \in {"unregistered", "done"}

NextOne == Start(1) \/ StepWithFaults(1)

\* The streaming handler under one request.
SpecOne == Init /\ [][NextOne]_vars

NextSerial ==
    \E e \in Execs :
        \/ Start(e) /\ \A o \in 1..(e - 1) : Quiescent(o)
        \/ StepWithFaults(e)

\* The streaming handler under requests that arrive one after the other,
\* each once the executions before it have nothing left to do.
SpecSerial == Init /\ [][NextSerial]_vars

(***************************************************************************)
(* The names of the artifacts.  The handler derives the file name of a     *)
(* request from dbName and from the clock alone (lines 69-70); the name is *)
(* the last part of the local path (line 73) and the Key of the upload     *)
(* (line 118).  Requests may arrive within one millisecond of the clock.   *)
(***************************************************************************)

\* The last instant the clock reaches.
MaxClock == 2

\* Number of requests whose names are followed.
MaxNamed == 3

\* req.query.dbName
QueryDbNames == {"shop", "crm"}

\* path.join(backupsDir, backupFileName), relative to process.cwd()
BackupFilePath(backupFileName) == "backups/" \o backupFileName

\* A millisecond passes.
ClockTick ==
    /\ now < MaxClock
    /\ now' = now + 1
    /\ UNCHANGED artifacts
    /\ UNCHANGED <<streamVars, schedVars, histVars, prismaVars>>

\* handler, lines 67-73 and 113-119: a request for dbName arrives; the
\* handler draws a recordId, reads the clock, and names the file it will
\* write and the Key it will upload to.
NameArtifacts(dbName) ==
    /\ Len(artifacts) < MaxNamed
    /\ LET recordId == Len(artifacts) + 1
           timestamp == FileTimestamp(now)
           backupFileName == BackupFileName(dbName, timestamp) IN
        artifacts' = Append(artifacts,
            [id |-> recordId, dbName |-> dbName, fileName |-> backupFileName,
             backupFilePath |-> BackupFilePath(backupFileName),
             Key |-> backupFileName])
    /\ UNCHANGED now
    /\ UNCHANGED <<streamVars, schedVars, histVars, prismaVars>>

NextNames ==
    \/ ClockTick
    \/ \E dbName \in QueryDbNames : NameArtifacts(dbName)

\* The artifact names of the streaming handler's requests.
SpecNames == Init /\ [][NextNames]_vars

\* handler of pages/api/backup.ts, lines 11-88: a request other than POST
\* gets 405, a body without cron expression 400, a valid expression is
\* scheduled (200), an invalid one gets 400.
BackupHandler(method, body) ==
    /\ requests < MaxRequests
    /\ requests' = requests + 1
    /\ LET trimmedBody == TrimmedBody(body) IN
        IF method # "POST"
        THEN /\ response' = 405
             /\ UNCHANGED tasks
        ELSE IF trimmedBody.cronExpression = ""
        THEN /\ response' = 400
             /\ UNCHANGED tasks
        ELSE IF CronValidate(trimmedBody.cronExpression)
        THEN /\ tasks' = tasks \cup
                    {ScheduledTask(requests + 1, "backup", trimmedBody)}
             /\ response' = 200
        ELSE /\ response' = 400
             /\ UNCHANGED tasks
    /\ UNCHANGED <<scheduledJobs, runs, ticks>>
    /\ UNCHANGED <<streamVars, histVars, prismaVars, nameVars>>

\* A task scheduled by pages/api/backup.ts fires: performBackup is called.
CronTick(t) ==
    /\ t \in tasks
    /\ t.handler = "backup"
    /\ ticks < MaxTicks
    /\ ticks' = ticks + 1
    /\ runs' = Append(runs, PerformBackup(t.body, "tick"))
    /\ UNCHANGED <<tasks, scheduledJobs, requests, response>>
    /\ UNCHANGED <<streamVars, histVars, prismaVars, nameVars>>

\* handler of the earlier version, lines 17-122: a request other than POST
\* gets 405; a valid cron expression is scheduled in place of the task kept
\* for the same jobKey; otherwise performBackup is called at once, which
\* answers 400 itself for an unsupported type.
DraftHandler(method, body) ==
    /\ requests < MaxRequests
    /\ requests' = requests + 1
    /\ IF method # "POST"
       THEN /\ response' = 405
            /\ UNCHANGED <<tasks, scheduledJobs, runs>>
       ELSE IF body.cronExpression # "" /\ CronValidate(body.cronExpression)
       THEN /\ tasks' =
                {t \in tasks : t.n # scheduledJobs[JobKey(body)]}
                    \cup {ScheduledTask(requests + 1, "draft", body)}
            /\ scheduledJobs' =
                [scheduledJobs EXCEPT ![JobKey(body)] = requests + 1]
            /\ response' = 200
            /\ UNCHANGED runs
       ELSE /\ runs' = Append(runs, DraftPerformBackup(body, "request"))
            /\ response' =
                IF DraftPerformBackup(body, "request").state = "dumping"
                THEN 200 ELSE 400
            /\ UNCHANGED <<tasks, scheduledJobs>>
    /\ UNCHANGED ticks
    /\ UNCHANGED <<streamVars, histVars, prismaVars, nameVars>>

\* A task scheduled by the earlier version fires: performBackup is called.
DraftCronTick(t) ==
    /\ t \in tasks
    /\ t.handler = "draft"
    /\ ticks < MaxTicks
    /\ ticks' = ticks + 1
    /\ runs' = Append(runs, DraftPerformBackup(t.body, "tick"))
    /\ UNCHANGED <<tasks, scheduledJobs, requests, response>>
    /\ UNCHANGED <<streamVars, histVars, prismaVars, nameVars>>

\* exec callback of pages/api/backup.ts, lines 55-61: the dump command of
\* run i has ended; with an error the record is updated to 'failed' and the
\* callback returns, else the dump file is handed to s3.upload.
ExecCallback(i, error) ==
    /\ i \in 1..Len(runs)
    /\ runs[i].state = "dumping"
    /\ runs' = [runs EXCEPT ![i] =
            IF error
            THEN [@ EXCEPT !.state = "done", !.status = "failed",
                           !.error = "stderr", !.completedAt = "now"]
            ELSE [@ EXCEPT !.state = "uploading"]]
    /\ UNCHANGED <<tasks, scheduledJobs, requests, ticks, response>>
    /\ UNCHANGED <<streamVars, histVars, prismaVars, nameVars>>

\* exec callback of pages/api/backup.ts, lines 66-73: s3.upload of run i
\* settles; the record is updated to 'completed' with the signed URL, or to
\* 'failed' with the error's message, and the dump file is unlinked.
S3UploadSettled(i, s3Error) ==
    /\ i \in 1..Len(runs)
    /\ runs[i].state = "uploading"
    /\ runs' = [runs EXCEPT ![i] =
            IF s3Error
            THEN [@ EXCEPT !.state = "done", !.status = "failed",
                           !.error = "s3Error.message", !.completedAt = "now"]
            ELSE [@ EXCEPT !.state = "done", !.status = "completed",
                           !.fileName = runs[i].localFileName,
                           !.downloadUrl = "downloadUrl", !.completedAt = "now"]]
    /\ UNCHANGED <<tasks, scheduledJobs, requests, ticks, response>>
    /\ UNCHANGED <<streamVars, histVars, prismaVars, nameVars>>

NextSched ==
    \/ \E method \in Methods, body \in Bodies : BackupHandler(method, body)
    \/ \E t \in tasks : CronTick(t)
    \/ \E i \in 1..Len(runs), error \in BOOLEAN : ExecCallback(i, error)
    \/ \E i \in 1..Len(runs), s3Error \in BOOLEAN : S3UploadSettled(i, s3Error)

\* pages/api/backup.ts with node-cron.
SpecSched == Init /\ [][NextSched]_vars

NextDraft ==
    \/ \E method \in Methods, body \in Bodies : DraftHandler(method, body)
    \/ \E t \in tasks : DraftCronTick(t)

\* The earlier version of pages/api/backup.ts with node-cron.
SpecDraft == Init /\ [][NextDraft]_vars

(***************************************************************************)
(* The history handler, pages/api/backups.ts.  It reads the file the       *)
(* streaming handler appends its records to.  A record is created with     *)
(* createdAt taken before the file is read (backup-stream.ts, lines 76-79) *)
(* so records of concurrent executions may stand in the file in either     *)
(* order of createdAt, and two may carry the same instant.                 *)
(***************************************************************************)

\* createdAt: new Date().toISOString() at three instants
Timestamps ==
    {"2024-05-01T10:00:00.000Z", "2024-05-01T10:00:00.250Z",
     "2024-05-02T09:30:00.000Z"}

\* new Date(createdAt).getTime(), in units that keep the order and the
\* distances of the three instants small
GetTime(createdAt) ==
    CASE createdAt = "2024-05-01T10:00:00.000Z" -> 0
      [] createdAt = "2024-05-01T10:00:00.250Z" -> 1
      [] createdAt = "2024-05-02T09:30:00.000Z" -> 4

\* A compare function with its operands exchanged,
\* (a, b) => getTime(a) - getTime(b).
SortsBeforeOldestFirst(a, b) == GetTime(a.createdAt) < GetTime(b.createdAt)

\* The compare function of line 57, (a, b) => getTime(b) - getTime(a), by
\* its sign: a is sorted before b when the result is negative.
SortsBefore(a, b) == GetTime(b.createdAt) < GetTime(a.createdAt)

\* Array.prototype.sort is stable: record r goes behind the records that
\* do not sort after it.
RECURSIVE InsertSorted(_, _)
InsertSorted(sorted, r) ==
    IF sorted = <<>> THEN <<r>>
    ELSE IF SortsBefore(r, Head(sorted)) THEN <<r>> \o sorted
    ELSE <<Head(sorted)>> \o InsertSorted(Tail(sorted), r)

\* records.sort((a, b) => ...), line 57
RECURSIVE SortFrom(_, _)
SortFrom(sorted, records) ==
    IF records = <<>> THEN sorted
    ELSE SortFrom(InsertSorted(sorted, Head(records)), Tail(records))

SortNewestFirst(records) == SortFrom(<<>>, records)

\* backup-stream.ts, lines 76-79: a record is appended to the file.
AppendRecord(createdAt) ==
    /\ Len(history) < MaxRecords
    /\ history' = Append(history, [id |-> Len(history) + 1, createdAt |-> createdAt])
    /\ UNCHANGED listing
    /\ UNCHANGED <<streamVars, schedVars, prismaVars, nameVars>>

\* handler of pages/api/backups.ts, lines 47-62: a request other than GET
\* gets 405; a GET answers the records read from the file, sorted.
HistoryHandler(method) ==
    /\ IF method = "GET"
       THEN listing' = SortNewestFirst(history)
       ELSE UNCHANGED listing
    /\ UNCHANGED history
    /\ UNCHANGED <<streamVars, schedVars, prismaVars, nameVars>>

NextHistory ==
    \/ \E createdAt \in Timestamps : AppendRecord(createdAt)
    \/ \E method \in Methods : HistoryHandler(method)

SpecHistory == Init /\ [][NextHistory]_vars

(***************************************************************************)
(* The earlier streaming handler (src/unnamed/part_000).  It keeps its job *)
(* record in prisma.backupRecord, pipes the child's stdout into a file     *)
(* under /tmp and uploads that file from the child's 'close' listener.     *)
(* One execution is followed.  An event written after res.end() is         *)
(* dropped, as in SendStreamMessage.                                       *)
(***************************************************************************)

\* handler, lines 9-39: a request arrives; without dbType the handler
\* throws and the catch block (lines 105-108) sends the failed event and
\* ends the response, else the start message is sent and the row is
\* created.
PrismaStart(dbType) ==
    /\ jobPc = "idle"
    /\ jobType' = dbType
    /\ IF dbType = ""
       THEN /\ jobEvents' = SendStreamMessage(jobEnded, jobEvents, <<"failed">>)
            /\ jobEnded' = TRUE
            /\ jobPc' = "done"
       ELSE /\ jobEvents' = SendStreamMessage(jobEnded, jobEvents, <<"info">>)
            /\ jobPc' = "create37"
            /\ UNCHANGED jobEnded
    /\ UNCHANGED <<closePc, errPc, jobRecord, jobProc, jobUpload, jobStdout,
                   jobFile, jobFileExists, jobUploaded>>
    /\ UNCHANGED <<streamVars, schedVars, histVars, nameVars>>

\* handler, lines 37-108: the row is created 'pending'; for postgresql the
\* child is spawned, the file is opened and the listeners are registered;
\* for any other type the handler throws and the catch block sends the
\* failed event and ends the response.
PrismaCreated ==
    /\ jobPc = "create37"
    /\ jobRecord' = PendingRow
    /\ IF jobType \in StreamSupportedTypes
       THEN /\ jobProc' = "running"
            /\ jobFileExists' = TRUE
            /\ closePc' = "registered"
            /\ errPc' = "registered"
            /\ jobPc' = "returned"
            /\ UNCHANGED <<jobEvents, jobEnded>>
       ELSE /\ jobEvents' = SendStreamMessage(jobEnded, jobEvents, <<"failed">>)
            /\ jobEnded' = TRUE
            /\ jobPc' = "done"
            /\ UNCHANGED <<jobProc, jobFileExists, closePc, errPc>>
    /\ UNCHANGED <<jobType, jobUpload, jobStdout, jobFile, jobUploaded>>
    /\ UNCHANGED <<streamVars, schedVars, histVars, nameVars>>

\* The running child writes a chunk to its stdout.
PrismaStdoutData ==
    /\ jobProc = "running"
    /\ jobStdout < MaxChunks
    /\ jobStdout' = jobStdout + 1
    /\ UNCHANGED <<jobPc, closePc, errPc, jobType, jobRecord, jobProc, jobUpload,
                   jobFile, jobFileExists, jobUploaded, jobEvents, jobEnded>>
    /\ UNCHANGED <<streamVars, schedVars, histVars, nameVars>>

\* backupProcess.stdout.pipe(fileWriteStream), line 61: the pipe takes the
\* next chunk from stdout and writes it to the file.
PrismaPipe ==
    /\ Len(jobFile) < jobStdout
    /\ jobFile' = Append(jobFile, Len(jobFile) + 1)
    /\ UNCHANGED <<jobPc, closePc, errPc, jobType, jobRecord, jobProc, jobUpload,
                   jobStdout, jobFileExists, jobUploaded, jobEvents, jobEnded>>
    /\ UNCHANGED <<streamVars, schedVars, histVars, nameVars>>

\* The child exits on its own, with exit code 0 or not.
PrismaProcessExit(code) ==
    /\ jobProc = "running"
    /\ jobProc' = IF code = 0 THEN "exit0" ELSE "exit1"
    /\ UNCHANGED <<jobPc, closePc, errPc, jobType, jobRecord, jobUpload, jobStdout,
                   jobFile, jobFileExists, jobUploaded, jobEvents, jobEnded>>
    /\ UNCHANGED <<streamVars, schedVars, histVars, nameVars>>

\* stderr 'data' listener, lines 63-65: a chunk of stderr is sent as a
\* message.
PrismaStderrData ==
    /\ jobProc = "running"
    /\ Cardinality({i \in 1..Len(jobEvents) : jobEvents[i] = "stderr"}) < MaxStderr
    /\ jobEvents' = SendStreamMessage(jobEnded, jobEvents, <<"stderr">>)
    /\ UNCHANGED <<jobPc, closePc, errPc, jobType, jobRecord, jobProc, jobUpload,
                   jobStdout, jobFile, jobFileExists, jobUploaded, jobEnded>>
    /\ UNCHANGED <<streamVars, schedVars, histVars, nameVars>>

\* 'error' listener, lines 98-101: the child could not be started; the
\* failed event is sent and the row's update is called.
PrismaSpawnError ==
    /\ jobProc = "running"
    /\ jobStdout = 0
    /\ errPc = "registered"
    /\ jobProc' = "error"
    /\ jobEvents' = SendStreamMessage(jobEnded, jobEvents, <<"failed">>)
    /\ errPc' = "update101"
    /\ UNCHANGED <<jobPc, closePc, jobType, jobRecord, jobUpload, jobStdout,
                   jobFile, jobFileExists, jobUploaded, jobEnded>>
    /\ UNCHANGED <<streamVars, schedVars, histVars, nameVars>>

\* 'error' listener, lines 101-102: the update takes effect; res.end().
PrismaErrorUpdated ==
    /\ errPc = "update101"
    /\ jobRecord' = [jobRecord EXCEPT !.status = "failed",
                                      !.error = "Failed to start backup process",
                                      !.completedAt = "now"]
    /\ jobEnded' = TRUE
    /\ errPc' = "done"
    /\ UNCHANGED <<jobPc, closePc, jobType, jobProc, jobUpload, jobStdout,
                   jobFile, jobFileExists, jobUploaded, jobEvents>>
    /\ UNCHANGED <<streamVars, schedVars, histVars, nameVars>>

\* 'close' listener, lines 67-74 and 90-93: the child has ended (or could
\* not be started) and its stdout has been read to the end.  With code 0
\* the uploading event is sent and the upload of the file is started, else
\* the failed event is sent and the row's update is called.
PrismaProcessClose ==
    /\ closePc = "registered"
    /\ jobProc \in {"exit0", "exit1", "error"}
    /\ Len(jobFile) = jobStdout
    /\ IF jobProc = "exit0"
       THEN /\ jobEvents' = SendStreamMessage(jobEnded, jobEvents, <<"uploading">>)
            /\ jobUpload' = "pending"
            /\ closePc' = "upload74"
       ELSE /\ jobEvents' = SendStreamMessage(jobEnded, jobEvents, <<"failed">>)
            /\ closePc' = "update93"
            /\ UNCHANGED jobUpload
    /\ UNCHANGED <<jobPc, errPc, jobType, jobRecord, jobProc, jobStdout, jobFile,
                   jobFileExists, jobUploaded, jobEnded>>
    /\ UNCHANGED <<streamVars, schedVars, histVars, nameVars>>

\* 'close' listener, lines 73-85: the upload, which reads the file,
\* settles; the completed or the failed event is sent and the row's update
\* is called.
PrismaUploadSettled(s3Error) ==
    /\ closePc = "upload74"
    /\ IF s3Error
       THEN /\ jobUpload' = "err"
            /\ jobEvents' = SendStreamMessage(jobEnded, jobEvents, <<"failed">>)
            /\ closePc' = "update85"
            /\ UNCHANGED jobUploaded
       ELSE /\ jobUpload' = "ok"
            /\ jobUploaded' = jobFile
            /\ jobEvents' = SendStreamMessage(jobEnded, jobEvents, <<"completed">>)
            /\ closePc' = "update78"
    /\ UNCHANGED <<jobPc, errPc, jobType, jobRecord, jobProc, jobStdout, jobFile,
                   jobFileExists, jobEnded>>
    /\ UNCHANGED <<streamVars, schedVars, histVars, nameVars>>

\* 'close' listener, lines 78-94: the row's update takes effect; after an
\* upload the file is unlinked; res.end().
PrismaUpdated ==
    /\ closePc \in {"update78", "update85", "update93"}
    /\ jobRecord' =
          CASE closePc = "update78" ->
                  [jobRecord EXCEPT !.status = "completed",
                                    !.downloadUrl = "downloadUrl",
                                    !.completedAt = "now"]
            [] closePc = "update85" ->
                  [jobRecord EXCEPT !.status = "failed",
                                    !.error = "s3Error.message",
                                    !.completedAt = "now"]
            [] closePc = "update93" ->
                  [jobRecord EXCEPT !.status = "failed",
                                    !.error = "Backup process failed.",
                                    !.completedAt = "now"]
    /\ jobFileExists' = IF closePc = "update93" THEN jobFileExists ELSE FALSE
    /\ jobEnded' = TRUE
    /\ closePc' = "done"
    /\ UNCHANGED <<jobPc, errPc, jobType, jobProc, jobUpload, jobStdout, jobFile,
                   jobUploaded, jobEvents>>
    /\ UNCHANGED <<streamVars, schedVars, histVars, nameVars>>

NextPrisma ==
    \/ \E dbType \in DbTypes \cup {""} : PrismaStart(dbType)
    \/ PrismaCreated
    \/ PrismaStdoutData
    \/ PrismaPipe
    \/ \E code \in {0, 1} : PrismaProcessExit(code)
    \/ PrismaStderrData
    \/ PrismaSpawnError
    \/ PrismaErrorUpdated
    \/ PrismaProcessClose
    \/ \E s3Error \in BOOLEAN : PrismaUploadSettled(s3Error)
    \/ PrismaUpdated

\* The earlier streaming handler with its child process and its upload.
SpecPrisma == Init /\ [][NextPrisma]_vars

(***************************************************************************)
(* Properties of the job records.                                          *)
(***************************************************************************)

\* The body of handler has run to its end.
Finished(e) == pc[e] \in {"done", "returned"}

\* The execution has nothing left to write: the body of handler reached the
\* end of its finally block and the listener is not between its read and
\* its res.end().
Ended(e) == pc[e] = "done" /\ lpc[e] \notin {"read97", "write102"}

\* A writeRecords of a status update by execution e takes effect.
StatusWrite(e) == CompleteWrite(e) \/ FailWrite(e) \/ CancelWrite(e)

\* How many of the three conditions of the record invariant a record meets.
RecordCases(r) ==
    Cardinality({c \in {"url", "error", "open"} :
        \/ c = "url" /\ r.downloadUrl # Absent
        \/ c = "error" /\ r.error # Absent
        \/ c = "open" /\ r.status \notin TerminalStatus})

\* C1: a record whose status is COMPLETED, FAILED or CANCELLED is left as
\* it is by every status update that takes effect afterwards, whether from
\* the success path, the failure path or the 'close' listener.
C1_TerminalRecordIsChanged ==
    [][\A w \in Execs :
          StatusWrite(w)
              => \A e \in Execs :
                    RecOf(file, e).status \in TerminalStatus
                        => RecOf(file', e) = RecOf(file, e)]_vars

\* C2: when every execution has appended its record and none has yet begun
\* a status update, the store holds the record of every execution.
C2_CreatedRecordIsDropped ==
    (\A e \in Execs : /\ pc[e] \in {"await132", "returned"}
                      /\ lpc[e] \in {"unregistered", "registered"})
        => \A e \in Execs : FindIndex(file, e) > 0

\* C3: the write of a status update by one execution leaves the record of
\* every other execution as it was.
C3_UpdateTouchesOtherRecord ==
    [][\A e \in Execs :
          StatusWrite(e)
              => \A o \in Execs \ {e} : RecOf(file', o) = RecOf(file, o)]_vars

\* C4: every record of the store meets exactly one of: download URL
\* present, error text present, status not terminal.
C4_RecordMeetsNotExactlyOneCase ==
    \A i \in 1..Len(file) : RecordCases(file[i]) = 1

\* C5: an execution whose dump process exited with a non-zero code ends
\* with its record FAILED, with an error text and without a download URL.
C5_NonZeroExitNotFailed ==
    \A e \in Execs :
        proc[e] = "exit1" /\ Ended(e)
            => /\ RecOf(file, e).status = "FAILED"
               /\ RecOf(file, e).error # Absent
               /\ RecOf(file, e).downloadUrl = Absent

\* C6: an execution whose dump process exited with code 0, whose upload
\* succeeded and whose requester never disconnected ends with its record
\* COMPLETED, with a download URL and without an error text.
C6_SuccessNotCompleted ==
    \A e \in Execs :
        proc[e] = "exit0" /\ upload[e] = "ok" /\ ~closed[e] /\ Ended(e)
            => /\ RecOf(file, e).status = "COMPLETED"
               /\ RecOf(file, e).downloadUrl # Absent
               /\ RecOf(file, e).error = Absent

\* C7: when the 'close' listener's write takes effect on a record that is
\* terminal by then, the record is left as it is.
C7_CancelOverwritesTerminal ==
    [][\A e \in Execs :
          CancelWrite(e) /\ RecOf(file, e).status \in TerminalStatus
              => RecOf(file', e) = RecOf(file, e)]_vars

\* C8: an execution cancelled while streaming (its child was killed before
\* the upload's body ended) ends with its record CANCELLED.
C8_CancelledMidStreamNotCancelled ==
    \A e \in Execs :
        proc[e] = "killed" /\ upload[e] = "ok" /\ Ended(e)
            => RecOf(file, e).status = "CANCELLED"

\* C9: once an execution is cancelled before its upload completed (its
\* child was killed), the upload does not complete and its key is not in
\* the bucket.
C9_CancelledUploadCompletes ==
    \A e \in Execs :
        proc[e] = "killed" => upload[e] # "ok" /\ e \notin bucket

\* C10: no execution has its requester disconnected, its handler finished
\* and its child process still running.
C10_DisconnectedChildStillRuns ==
    \A e \in Execs : ~(closed[e] /\ Finished(e) /\ proc[e] = "running")

(***************************************************************************)
(* Properties of the progress stream and of an execution's end.            *)
(***************************************************************************)

\* The status tags of the events that report an execution's outcome.
TerminalTags == {"completed", "failed"}

\* How many events of a stream carry a terminal status tag.
TerminalEvents(sent) ==
    Cardinality({i \in 1..Len(sent) : sent[i] \in TerminalTags})

\* The execution has stopped: the body of handler has returned and the
\* listener is not between its read and its res.end().
Stopped(e) == Finished(e) /\ lpc[e] \notin {"read97", "write102"}

\* C11: an execution that ran to the end of its finally block, and whose
\* record is in the store, has had exactly one status update take effect
\* and has sent exactly one event with a terminal status tag.
C11_NotOneTransitionOneEvent ==
    \A e \in Execs :
        Ended(e) /\ FindIndex(file, e) > 0
            => written[e] = 1 /\ TerminalEvents(stream[e]) = 1

\* C12: once an execution has stopped, its record is not left in
\* PROCESSING (or QUEUED).
C12_StoppedRecordStillProcessing ==
    \A e \in Execs :
        Stopped(e) => RecOf(file, e).status \notin {"PROCESSING", "QUEUED"}

\* C13: once an event with a terminal status tag has been sent, the store
\* shows the execution's record in the matching terminal status.
C13_EventBeforeTransition ==
    \A e \in Execs : \A i \in 1..Len(stream[e]) :
        /\ stream[e][i] = "completed" => RecOf(file, e).status = "COMPLETED"
        /\ stream[e][i] = "failed" => RecOf(file, e).status = "FAILED"

\* C14: after an event with a terminal status tag, no further event is sent
\* on the stream (the {status: 'closed'} event that the finally block sends
\* together with res.end() is not counted as a further event).
C14_EventAfterTerminalEvent ==
    \A e \in Execs : \A i, j \in 1..Len(stream[e]) :
        i < j /\ stream[e][i] \in TerminalTags => stream[e][j] = "closed"

\* C15: once an execution has stopped, its progress stream has been ended
\* by the server.
C15_StoppedStreamNotEnded ==
    \A e \in Execs : Stopped(e) => resEnded[e]

\* C16: a progress stream that the server has ended has carried an event
\* with a terminal status tag.
C16_EndedWithoutTerminalEvent ==
    \A e \in Execs : resEnded[e] => TerminalEvents(stream[e]) > 0

\* C17: once an execution has run to the end of its finally block and its
\* listener is at rest, its local artifact file no longer exists.
C17_LocalArtifactLeftBehind ==
    \A e \in Execs : Ended(e) => e \notin localFiles

(***************************************************************************)
(* Properties of the scheduling handlers.                                  *)
(***************************************************************************)

\* The live cron tasks of a schedule identity.
TasksOf(key) == {t \in tasks : t.key = key}

\* A cron expression that is given and is not valid.
InvalidCron(expression) == expression # "" /\ ~CronValidate(expression)

\* C18: every schedule identity (dbType-dbHost-dbName) has at most one live
\* cron task.
C18_TwoTimersForOneIdentity ==
    \A key \in JobKeys : Cardinality(TasksOf(key)) <= 1

\* C19: a POST whose cron expression is invalid registers no task, stops no
\* task and starts no backup.
C19_InvalidCronHasEffects ==
    [][\A body \in Bodies :
          DraftHandler("POST", body) /\ InvalidCron(body.cronExpression)
              => UNCHANGED <<tasks, scheduledJobs, runs>>]_vars

\* C20: a POST without cron expression starts exactly one backup at once
\* and registers no task; a POST with a valid cron expression registers a
\* task and starts no backup.
C20_NoCronDoesNotRunOnce ==
    [][\A body \in Bodies :
          BackupHandler("POST", body)
              => /\ body.cronExpression = ""
                    => Len(runs') = Len(runs) + 1 /\ tasks' = tasks
                 /\ CronValidate(body.cronExpression)
                    => Cardinality(tasks') = Cardinality(tasks) + 1
                       /\ runs' = runs]_vars

(***************************************************************************)
(* Properties of the backups that the scheduling handler starts.           *)
(***************************************************************************)

\* A performBackup call whose dump or upload has not ended.
InFlight(run) == run.state \in {"dumping", "uploading"}

\* A part of a command line is the string itself.
Contains(command, str) == \E i \in 1..Len(command) : command[i] = str

\* C21: no two backups of the same job identity (dbType-dbHost-dbName) are
\* in flight at the same time.
C21_TwoRunsOfOneJobInFlight ==
    \A i, j \in 1..Len(runs) :
        i # j /\ runs[i].key = runs[j].key
            => ~(InFlight(runs[i]) /\ InFlight(runs[j]))

\* C23: a backup whose database type is not supported has created no job
\* record.
C23_UnsupportedKindCreatesRecord ==
    \A i \in 1..Len(runs) :
        runs[i].dbType \notin SupportedTypes => runs[i].status = "NONE"

\* C24: the dump command of a started backup does not contain the
\* password that is passed in PGPASSWORD.
C24_PasswordInCommandLine ==
    \A i \in 1..Len(runs) :
        runs[i].state # "returned"
            => ~Contains(runs[i].dumpCommand, runs[i].env.PGPASSWORD)

\* C25: a job record has completedAt if and only if its status is
\* 'completed' or 'failed'.
C25_TerminalWithoutCompletedAt ==
    \A i \in 1..Len(runs) :
        runs[i].status # "NONE"
            => (runs[i].completedAt # Absent
                    <=> runs[i].status \in {"completed", "failed"})

(***************************************************************************)
(* Properties of the streaming handler's failure paths.                    *)
(***************************************************************************)

\* C22: for a request whose database type is not supported, no dump
\* process is spawned.
C22_UnsupportedKindSpawnsDump ==
    \A e \in Execs : DbTypeOf(e) \notin SupportedTypes => proc[e] = "none"

\* C26: an execution that found the dump binary missing has its record
\* FAILED with an error text and has sent the failed event.
C26_MissingDumpToolNotFailed ==
    \A e \in Execs :
        pc[e] = "returned"
            => /\ RecOf(file, e).status = "FAILED"
               /\ RecOf(file, e).error # Absent
               /\ TerminalEvents(stream[e]) > 0

\* C27: an execution whose upload failed, and whose record is in the
\* store, ends with the record FAILED, the upload's error message as its
\* error text and no download URL.
C27_UploadErrorNotFailed ==
    \A e \in Execs :
        upload[e] = "err" /\ Ended(e) /\ FindIndex(file, e) > 0
            => /\ RecOf(file, e).status = "FAILED"
               /\ RecOf(file, e).error = "S3 Error"
               /\ RecOf(file, e).downloadUrl = Absent

\* C29: a record is COMPLETED only when its dump process has exited with
\* code 0.
C29_CompletedWithoutExitZero ==
    \A e \in Execs :
        RecOf(file, e).status = "COMPLETED" => proc[e] = "exit0"

(***************************************************************************)
(* Properties of the history listing.                                      *)
(***************************************************************************)

\* How many times a record stands in a sequence.
Count(records, r) == Cardinality({i \in 1..Len(records) : records[i] = r})

\* Two sequences hold the same records, each as many times.
IsPermutation(a, b) ==
    /\ Len(a) = Len(b)
    /\ \A i \in 1..Len(a) : Count(a, a[i]) = Count(b, a[i])

\* No record stands right before a record created later.
NewestFirst(records) ==
    \A i \in 1..(Len(records) - 1) :
        GetTime(records[i].createdAt) >= GetTime(records[i + 1].createdAt)

C30_UploadStartsAfterExit ==
    [][jobUpload = "none" /\ jobUpload' = "pending"
          => jobProc = "running"]_vars

(***************************************************************************)
(* Properties of the diagnostic events and of the record's fields.         *)
(***************************************************************************)

\* The event is the message of a stderr chunk.
IsStderrMessage(tag) == \E n \in 1..MaxSerialStderr : tag = StderrMessage(n)

\* The number of the stderr chunk whose message the event is.
ChunkOf(tag) == CHOOSE n \in 1..MaxSerialStderr : tag = StderrMessage(n)

\* The fields of a record that are assigned when it is created.
CreationFields(r) == <<r.id, r.dbName, r.createdAt, r.fileName>>

\* C31: a chunk received on stderr changes nothing but errorOutput and the
\* stream, to which it adds at most one event, without a terminal status
\* tag: the store, the upload and the positions of the handler and of the
\* listener are as before.
C31_StderrOnlyInforms ==
    [][\A e \in Execs :
          StderrChunk(e, MaxSerialStderr)
              => /\ UNCHANGED <<dbExists, file, pc, rd, buf, lpc, lrd, lbuf,
                                closed, proc, upload, bucket, resEnded,
                                localFiles, written>>
                 /\ \/ stream'[e] = stream[e]
                    \/ /\ Len(stream'[e]) = Len(stream[e]) + 1
                       /\ SubSeq(stream'[e], 1, Len(stream[e])) = stream[e]
                       /\ stream'[e][Len(stream'[e])] \notin TerminalTags]_vars

\* An execution that received two stderr chunks and went on to a terminal
\* record.
C31_Witness ==
    /\ errorOutput[1] >= 2
    /\ RecOf(file, 1).status \in TerminalStatus

\* C32: the messages of the stderr chunks stand on the stream in the order
\* in which the chunks were produced.
C32_StderrEventsInOrder ==
    \A e \in Execs : \A i, j \in 1..Len(stream[e]) :
        i < j /\ IsStderrMessage(stream[e][i]) /\ IsStderrMessage(stream[e][j])
            => ChunkOf(stream[e][i]) < ChunkOf(stream[e][j])

\* A stream that carries the messages of two stderr chunks.
C32_Witness ==
    \E i, j \in 1..Len(stream[1]) :
        /\ stream[1][i] = StderrMessage(1)
        /\ stream[1][j] = StderrMessage(2)

\* C34: a record of the store that has a download URL is COMPLETED.
C34_UrlOnlyOnCompleted ==
    \A i \in 1..Len(file) :
        file[i].downloadUrl # Absent => file[i].status = "COMPLETED"

\* A record with a download URL whose requester has disconnected and
\* whose listener has run.
C34_Witness ==
    /\ RecOf(file, 1).downloadUrl # Absent
    /\ closed[1]
    /\ lpc[1] = "done"

\* C35: a status update that takes effect leaves the record with the id,
\* dbName, createdAt and fileName it was created with.
C35_UpdateKeepsCreationFields ==
    [][\A e \in Execs :
          StatusWrite(e)
              => CreationFields(RecOf(file', e)) = CreationFields(NewRecord(e))]_vars

\* A record that both the listener and the handler body have updated.
C35_Witness ==
    /\ written[1] = 2
    /\ RecOf(file, 1).status \in TerminalStatus

\* C33: every record of a run of performBackup has a file name, from its
\* creation on.
C33_RecordAlwaysHasFileName ==
    \A i \in 1..Len(runs) :
        runs[i].status # "NONE" => runs[i].fileName # Absent

\* C36: two distinct executions have distinct local artifact paths and
\* distinct object-storage keys.
C36_DistinctArtifactNames ==
    \A i, j \in 1..Len(artifacts) :
        i # j => /\ artifacts[i].backupFilePath # artifacts[j].backupFilePath
                 /\ artifacts[i].Key # artifacts[j].Key

\* The 'close' listener of e reaches its res.end() (line 104) in this step.
ListenerEnds(e) == lpc[e] # "done" /\ lpc'[e] = "done"

\* C37: a progress stream that the server has ended is not ended a second
\* time: the listener's res.end() is never called on an ended stream.
C37_EndedStreamNotEndedAgain ==
    [][\A e \in Execs : ListenerEnds(e) => ~resEnded[e]]_vars

\* The records of the store before the step are in the store after it.
RecordsKept ==
    \A i \in 1..Len(file) : FindIndex(file', file[i].id) > 0

\* C38: a create or a status update whose read of the history file failed
\* leaves in the store every record that was in it before.
C38_FailedReadLosesNoRecord ==
    [][\A e \in Execs :
          (\/ \E pgDumpExists \in BOOLEAN : CreateWrite(e, pgDumpExists)
           \/ CompleteWrite(e)
           \/ FailWrite(e)
           \/ CancelWrite(e)) => RecordsKept]_vars

====
